---- MODULE Spec2Model ----
(***************************************************************************)
(* Finite differencing routine of ceres-solver:                            *)
(* NumericDiff<...>::EvaluateJacobianForParameterBlock                     *)
(* (include/ceres/internal/numeric_diff.h).                                *)
(*                                                                         *)
(* A double is modelled as a binary floating-point number with Precision   *)
(* significant bits, stored as an integer count of units of 1/One; every   *)
(* arithmetic operation rounds its exact result to the nearest             *)
(* representable number (ties to even), as IEEE-754 does.                  *)
(***************************************************************************)
EXTENDS Integers, Sequences, FiniteSets, TLC

VARIABLES
  call,            \* template arguments and run-time arguments of the call
  parameters,      \* double** parameters: the caller's parameter blocks
  jacobian,        \* double* jacobian: the caller's buffer, by offset
  x,               \* ParameterVector x: copy of the target block at entry
  step_size,       \* ParameterVector step_size
  residuals,       \* ResidualVector residuals: the local working vector
  j,               \* loop counter
  delta,           \* const double delta of the current iteration
  one_over_delta,  \* double one_over_delta of the current iteration
  pc,              \* position in the function
  ret,             \* value returned, "none" while not returned
  entry,           \* the parameter blocks as they were at call entry
  evals,           \* the invocations of EvaluateImpl, in order
  writes           \* the stores made to the jacobian buffer

vars == <<call, parameters, jacobian, x, step_size, residuals, j, delta,
          one_over_delta, pc, ret, entry, evals, writes>>

-----------------------------------------------------------------------------
(* Bounds of the model *)

MaxN == 2          \* largest parameter block size
MaxRes == 2        \* largest number of residuals

(* The arithmetic *)

Precision == 3     \* significant bits of a double in the model
One == 16          \* the double 1.0, in units
DYNAMIC == -1      \* ceres::DYNAMIC

Abs(a) == IF a < 0 THEN -a ELSE a

Max(a, b) == IF a < b THEN b ELSE a

RECURSIVE ExponentOf(_, _, _)
\* least e >= 0 with a / (den * 2^e) < 2^Precision
ExponentOf(a, den, e) ==
  IF a < (2 ^ (Precision + e)) * den THEN e ELSE ExponentOf(a, den, e + 1)

\* num / den (den > 0) rounded to the nearest representable number, ties to
\* the even significand
RoundQ(num, den) ==
  LET a == Abs(num)
      e == ExponentOf(a, den, 0)
      d == den * (2 ^ e)
      q == a \div d
      r == a % d
      m == IF 2 * r < d THEN q
           ELSE IF 2 * r > d THEN q + 1
           ELSE IF q % 2 = 0 THEN q ELSE q + 1
  IN  (IF num < 0 THEN -1 ELSE 1) * m * (2 ^ e)

FAdd(a, b) == RoundQ(a + b, 1)
FSub(a, b) == RoundQ(a - b, 1)
FMul(a, b) == RoundQ(a * b, One)
FDiv(a, b) == IF b < 0 THEN RoundQ(-(a * One), -b) ELSE RoundQ(a * One, b)

\* std::sqrt(std::numeric_limits<double>::epsilon()): epsilon is
\* 2^(1 - Precision) = 1/4, its square root 1/2
MinStepSize == One \div 2

-----------------------------------------------------------------------------
(* The cost functor *)

RECURSIVE WeightedSum(_, _, _)
\* sum over k of (w + k) * s[k], accumulated left to right
WeightedSum(s, k, w) ==
  IF k > Len(s) THEN 0
  ELSE FAdd(FMul((w + k) * One, s[k]), WeightedSum(s, k + 1, w))

RECURSIVE SumOfSquares(_, _)
SumOfSquares(s, k) ==
  IF k > Len(s) THEN 0
  ELSE FAdd(FMul(s[k], s[k]), SumOfSquares(s, k + 1))

Flat(point) == point[1] \o point[2]

\* residual i (0-based) of functor fn at the point
ResidualAt(fn, point, i) ==
  IF fn = "linear" THEN WeightedSum(Flat(point), 1, i)
  ELSE FMul((i + 1) * One, SumOfSquares(Flat(point), 1))

\* the residual vector the functor writes, as a sequence of length n
ResidualVectorAt(fn, point, n) == [i \in 1..n |-> ResidualAt(fn, point, i - 1)]

\* the k-th invocation of the functor reports success unless it is the one
\* the functor fails at
EvaluateOk(functor, k) == k # functor.failAt

-----------------------------------------------------------------------------
(* Resolution of the sizes, lines 103-110 *)

NumResidualsInternal(c) ==
  IF c.kNumResiduals # DYNAMIC THEN c.kNumResiduals ELSE c.num_residuals

ParameterBlockIndexInternal(c) ==
  IF c.kParameterBlock # DYNAMIC THEN c.kParameterBlock
  ELSE c.parameter_block_index

ParameterBlockSizeInternal(c) ==
  IF c.kParameterBlockSize # DYNAMIC THEN c.kParameterBlockSize
  ELSE c.parameter_block_size

\* variant: the fatal dispatch decided on the resolved run-time size
IsZeroSizeAtRunTime(c) == ParameterBlockSizeInternal(c) = 0

\* the partial specialization for kParameterBlockSize = 0 is selected
IsZeroSizeSpecialization(c) == c.kParameterBlockSize = 0

\* variant: a column-major view whatever the block size
JacobianOffsetColMajor(c, i, jj) == i + jj * NumResidualsInternal(c)

\* offset of parameter_jacobian(i, jj) in the buffer
JacobianOffset(c, i, jj) ==
  IF c.kParameterBlockSize = 1
  THEN i + jj * NumResidualsInternal(c)
  ELSE i * ParameterBlockSizeInternal(c) + jj

\* the target block of a parameter state (blocks are 0-based in the code)
TargetBlock(c, params) == params[ParameterBlockIndexInternal(c) + 1]

-----------------------------------------------------------------------------
(* Inputs *)

XVals == {0, -12, 96}
OtherBlock == <<20>>
RelativeSteps == {1, 8}
Functions == {"linear", "squares"}
Garbage == 5

SeqsOfLen(S, n) == [1..n -> S]

\* The instantiations and arguments explored.  A run-time argument that a
\* compile-time constant overrides is given the fixed value 1, whatever the
\* constant;
\* the number of residuals and the block index are both compile-time
\* constants or both run-time arguments; the functor fails at none or at one
\* of the evaluations a call can make.
Calls ==
  { c \in [ kMethod : {"FORWARD", "CENTRAL"},
            kNumResiduals : {DYNAMIC, MaxRes},
            kParameterBlock : {DYNAMIC, 0},
            kParameterBlockSize : {DYNAMIC} \cup (0..MaxN),
            functor : [fn : Functions, failAt : 0..(2 * MaxN)],
            residuals_exact : BOOLEAN,
            relative_step_size : RelativeSteps,
            num_residuals : {1, MaxRes},
            parameter_block_index : {1},
            parameter_block_size : 0..MaxN ] :
      /\ c.kNumResiduals # DYNAMIC => c.num_residuals = 1
      /\ (c.kNumResiduals = DYNAMIC) <=> (c.kParameterBlock = DYNAMIC)
      /\ c.kParameterBlockSize # DYNAMIC => c.parameter_block_size = 1
      /\ c.functor.failAt <=
           (IF c.kMethod = "CENTRAL" THEN 2 ELSE 1) * ParameterBlockSizeInternal(c) }

\* residuals_at_eval_point as the caller supplies it
ResidualsAtEvalPoint(c) ==
  IF c.residuals_exact
  THEN ResidualVectorAt(c.functor.fn, entry, NumResidualsInternal(c))
  ELSE [i \in 1..NumResidualsInternal(c) |-> One]

JacobianSize(c) == NumResidualsInternal(c) * ParameterBlockSizeInternal(c)

Init ==
  /\ call \in Calls
  /\ \E xs \in SeqsOfLen(XVals, ParameterBlockSizeInternal(call)) :
       parameters = IF ParameterBlockIndexInternal(call) = 0
                    THEN <<xs, OtherBlock>> ELSE <<OtherBlock, xs>>
  /\ entry = parameters
  /\ jacobian = [o \in 0..(JacobianSize(call) - 1) |-> Garbage]
  /\ x = <<>>
  /\ step_size = <<>>
  /\ residuals = <<>>
  /\ j = 0
  /\ delta = 0
  /\ one_over_delta = 0
  /\ pc = "entry"
  /\ ret = "none"
  /\ evals = <<>>
  /\ writes = {}

-----------------------------------------------------------------------------
(* The steps of EvaluateJacobianForParameterBlock *)

\* variant: LOG(FATAL) falls through to the return statement after it
FatalOutcomeReturns == "returned"

\* what reaching LOG(FATAL) does to the call
FatalOutcome == "fatal"

\* lines 198-218: the kParameterBlockSize = 0 specialization
ZeroSizeSpecialization ==
  /\ pc = "entry"
  /\ IsZeroSizeSpecialization(call)
  /\ pc' = FatalOutcome
  /\ ret' = IF FatalOutcome = "fatal" THEN "none" ELSE "true"
  /\ UNCHANGED <<call, parameters, jacobian, x, step_size, residuals, j,
                 delta, one_over_delta, entry, evals, writes>>

\* step_size = x.array().abs() * relative_step_size
StepSizeVector(xs, rel) == [k \in 1..Len(xs) |-> FMul(Abs(xs[k]), rel)]

\* lines 103-145: the maps, the copy x, step_size and the working vector
Prologue ==
  /\ pc = "entry"
  /\ ~IsZeroSizeSpecialization(call)
  /\ x' = TargetBlock(call, parameters)
  /\ step_size' = StepSizeVector(TargetBlock(call, parameters),
                                 call.relative_step_size)
  /\ residuals' = [i \in 1..NumResidualsInternal(call) |-> Garbage]
  /\ j' = 0
  /\ pc' = "loop"
  /\ UNCHANGED <<call, parameters, jacobian, delta, one_over_delta, ret,
                 entry, evals, writes>>

\* x_plus_delta(jj) = v: a store through the map into the caller's block
SetCoordinate(params, c, jj, v) ==
  [params EXCEPT ![ParameterBlockIndexInternal(c) + 1][jj + 1] = v]

\* variant: the relative step without the floor
DeltaForNoFloor(steps, jj) == steps[jj + 1]

\* const double delta = std::max(min_step_size, step_size(j))
DeltaFor(steps, jj) == Max(MinStepSize, steps[jj + 1])

\* lines 146-148
PerturbPlus ==
  /\ pc = "loop"
  /\ j < ParameterBlockSizeInternal(call)
  /\ delta' = DeltaFor(step_size, j)
  /\ parameters' = SetCoordinate(parameters, call, j,
                                 FAdd(x[j + 1], DeltaFor(step_size, j)))
  /\ pc' = "evalPlus"
  /\ UNCHANGED <<call, jacobian, x, step_size, residuals, j, one_over_delta,
                 ret, entry, evals, writes>>

\* lines 146, 184: the loop is over
ReturnTrue ==
  /\ pc = "loop"
  /\ ~(j < ParameterBlockSizeInternal(call))
  /\ pc' = "returned"
  /\ ret' = "true"
  /\ UNCHANGED <<call, parameters, jacobian, x, step_size, residuals, j,
                 delta, one_over_delta, entry, evals, writes>>

\* variant: the result of EvaluateImpl is not tested
EvaluateIgnoringFailure(side, next) ==
  LET ok == EvaluateOk(call.functor, Len(evals) + 1)
  IN  /\ evals' = Append(evals, [point |-> parameters, ok |-> ok,
                                 j |-> j, side |-> side])
      /\ residuals' = ResidualVectorAt(call.functor.fn, parameters,
                                       NumResidualsInternal(call))
      /\ pc' = next
      /\ UNCHANGED <<call, parameters, jacobian, x, step_size, j, delta,
                     one_over_delta, ret, entry, writes>>

\* variant: a failed evaluation is tried once more
EvaluateWithRetry(side, next) ==
  LET ok1 == EvaluateOk(call.functor, Len(evals) + 1)
      ok2 == EvaluateOk(call.functor, Len(evals) + 2)
      rec(ok) == [point |-> parameters, ok |-> ok, j |-> j, side |-> side]
      ok == ok1 \/ ok2
  IN  /\ evals' = IF ok1 THEN Append(evals, rec(ok1))
                  ELSE Append(Append(evals, rec(ok1)), rec(ok2))
      /\ residuals' = IF ok
                      THEN ResidualVectorAt(call.functor.fn, parameters,
                                            NumResidualsInternal(call))
                      ELSE residuals
      /\ pc' = IF ok THEN next ELSE "returned"
      /\ ret' = IF ok THEN ret ELSE "false"
      /\ UNCHANGED <<call, parameters, jacobian, x, step_size, j, delta,
                     one_over_delta, entry, writes>>

\* one call of EvaluateImpl(functor, parameters, residuals.data(), functor);
\* on failure the function returns false
Evaluate(side, next) ==
  LET ok == EvaluateOk(call.functor, Len(evals) + 1)
  IN  /\ evals' = Append(evals, [point |-> parameters, ok |-> ok,
                                 j |-> j, side |-> side])
      /\ residuals' = IF ok
                      THEN ResidualVectorAt(call.functor.fn, parameters,
                                            NumResidualsInternal(call))
                      ELSE residuals
      /\ pc' = IF ok THEN next ELSE "returned"
      /\ ret' = IF ok THEN ret ELSE "false"
      /\ UNCHANGED <<call, parameters, jacobian, x, step_size, j, delta,
                     one_over_delta, entry, writes>>

\* lines 150-153
EvalPlus ==
  /\ pc = "evalPlus"
  /\ Evaluate("plus", "store")

\* lines 166-169
EvalMinus ==
  /\ pc = "evalMinus"
  /\ Evaluate("minus", "subtractBackward")

\* parameter_jacobian.col(jj), read: the column by row
Column(c, jac, jj) ==
  [i \in 0..(NumResidualsInternal(c) - 1) |-> jac[JacobianOffset(c, i, jj)]]

\* parameter_jacobian.col(jj) = vals: one store per row
WriteColumn(c, jac, jj, vals) ==
  [o \in DOMAIN jac |->
     IF \E i \in DOMAIN vals : o = JacobianOffset(c, i, jj)
     THEN vals[CHOOSE i \in DOMAIN vals : o = JacobianOffset(c, i, jj)]
     ELSE jac[o]]

ColumnStores(c, jj) ==
  { [offset |-> JacobianOffset(c, i, jj), row |-> i, col |-> jj, during |-> j] :
      i \in 0..(NumResidualsInternal(c) - 1) }

\* lines 159-161
StoreColumn ==
  /\ pc = "store"
  /\ jacobian' = WriteColumn(call, jacobian, j,
                 [i \in 0..(NumResidualsInternal(call) - 1) |-> residuals[i + 1]])
  /\ writes' = writes \cup ColumnStores(call, j)
  /\ one_over_delta' = FDiv(One, delta)
  /\ pc' = IF call.kMethod = "CENTRAL" THEN "perturbMinus" ELSE "subtractReference"
  /\ UNCHANGED <<call, parameters, x, step_size, residuals, j, delta, ret,
                 entry, evals>>

\* line 164
PerturbMinus ==
  /\ pc = "perturbMinus"
  /\ parameters' = SetCoordinate(parameters, call, j, FSub(x[j + 1], delta))
  /\ pc' = "evalMinus"
  /\ UNCHANGED <<call, jacobian, x, step_size, residuals, j, delta,
                 one_over_delta, ret, entry, evals, writes>>

\* variant: the run is not doubled for the central difference
HalvedOmitted(o) == o

\* one_over_delta /= 2
Halved(o) == FDiv(o, 2 * One)

\* lines 171-172
SubtractBackward ==
  /\ pc = "subtractBackward"
  /\ jacobian' = WriteColumn(call, jacobian, j,
                 [i \in 0..(NumResidualsInternal(call) - 1) |->
                    FSub(Column(call, jacobian, j)[i], residuals[i + 1])])
  /\ writes' = writes \cup ColumnStores(call, j)
  /\ one_over_delta' = Halved(one_over_delta)
  /\ pc' = "restore"
  /\ UNCHANGED <<call, parameters, x, step_size, residuals, j, delta, ret,
                 entry, evals>>

\* lines 175-177
SubtractReference ==
  /\ pc = "subtractReference"
  /\ jacobian' = WriteColumn(call, jacobian, j,
                 [i \in 0..(NumResidualsInternal(call) - 1) |->
                    FSub(Column(call, jacobian, j)[i],
                         ResidualsAtEvalPoint(call)[i + 1])])
  /\ writes' = writes \cup ColumnStores(call, j)
  /\ pc' = "restore"
  /\ UNCHANGED <<call, parameters, x, step_size, residuals, j, delta,
                 one_over_delta, ret, entry, evals>>

\* variant: the perturbation is undone arithmetically
RestoredValueByUndo(xs, cur, d, jj) ==
  IF call.kMethod = "CENTRAL" THEN FAdd(cur, d) ELSE FSub(cur, d)

\* variant: the coordinate is left as it is
RestoredValueKept(xs, cur, d, jj) == cur

\* the value line 179 stores back into coordinate jj
RestoredValue(xs, cur, d, jj) == xs[jj + 1]

\* line 179
Restore ==
  /\ pc = "restore"
  /\ parameters' = SetCoordinate(parameters, call, j,
                     RestoredValue(x, TargetBlock(call, parameters)[j + 1],
                                   delta, j))
  /\ pc' = "scale"
  /\ UNCHANGED <<call, jacobian, x, step_size, residuals, j, delta,
                 one_over_delta, ret, entry, evals, writes>>

\* line 182 and the ++j of line 146
Scale ==
  /\ pc = "scale"
  /\ jacobian' = WriteColumn(call, jacobian, j,
                 [i \in 0..(NumResidualsInternal(call) - 1) |->
                    FMul(Column(call, jacobian, j)[i], one_over_delta)])
  /\ writes' = writes \cup ColumnStores(call, j)
  /\ j' = j + 1
  /\ pc' = "loop"
  /\ UNCHANGED <<call, parameters, x, step_size, residuals, delta,
                 one_over_delta, ret, entry, evals>>

Next ==
  \/ ZeroSizeSpecialization
  \/ Prologue
  \/ PerturbPlus
  \/ ReturnTrue
  \/ EvalPlus
  \/ StoreColumn
  \/ PerturbMinus
  \/ EvalMinus
  \/ SubtractBackward
  \/ SubtractReference
  \/ Restore
  \/ Scale

Spec == Init /\ [][Next]_vars

TypeOK ==
  /\ pc \in {"entry", "loop", "evalPlus", "store", "perturbMinus", "evalMinus",
             "subtractBackward", "subtractReference", "restore", "scale",
             "returned", "fatal"}
  /\ ret \in {"none", "true", "false"}
  /\ j \in 0..MaxN

-----------------------------------------------------------------------------
(* Vocabulary of the properties, in terms of the call-entry state *)

Target == ParameterBlockIndexInternal(call) + 1
EntryX == entry[Target]
N == Len(EntryX)
NumRes == NumResidualsInternal(call)
Central == call.kMethod = "CENTRAL"
Returned == pc = "returned"
InColumn == pc \in {"evalPlus", "store", "perturbMinus", "evalMinus",
                    "subtractBackward", "subtractReference", "restore", "scale"}

\* max(min_step, relative_step_size * |x_k|) of the entry value of coordinate k
EntryDelta(k) ==
  LET s == FMul(call.relative_step_size, Abs(EntryX[k]))
  IN  IF s > MinStepSize THEN s ELSE MinStepSize

\* the entry state with coordinate k of the target block replaced by v
EntryWith(k, v) == [entry EXCEPT ![Target][k] = v]

PlusPoint(k) == EntryWith(k, FAdd(EntryX[k], EntryDelta(k)))
MinusPoint(k) == EntryWith(k, FSub(EntryX[k], EntryDelta(k)))

AllOk == \A k \in 1..Len(evals) : evals[k].ok

-----------------------------------------------------------------------------
\* C1: when the call returns true on a block of size n >= 1, every
\* coordinate of the target block holds exactly its call-entry value and no
\* other parameter block has changed.
C1_RestoredOnSuccess ==
  (Returned /\ ret = "true" /\ N >= 1) => parameters = entry

\* a successful call on a full-size block one of whose coordinates x has
\* (x + delta) - delta # x in the arithmetic
C1_Witness ==
  /\ Returned /\ ret = "true" /\ N = MaxN
  /\ \E k \in 1..N :
       FSub(FAdd(EntryX[k], EntryDelta(k)), EntryDelta(k)) # EntryX[k]

\* C2: whenever the call returns false because an evaluation failed, the
\* target parameter block is identical to its call-entry state.
C2_RestoredOnFailure ==
  (Returned /\ ret = "false") => parameters[Target] = EntryX

\* C3: on a block of size n >= 1 the call returns true if and only if every
\* evaluation it invoked succeeded, and a failed evaluation is the last one
\* of the call: the call has returned false right after it.
C3_TrueIffAllSucceeded ==
  /\ (Returned /\ N >= 1) => (ret = "true" <=> AllOk)
  /\ ~AllOk => /\ Returned /\ ret = "false"
               /\ \A k \in 1..Len(evals) : ~evals[k].ok => k = Len(evals)

\* a call that failed at its first evaluation although later coordinates
\* were still to be differenced
C3_Witness ==
  /\ Returned /\ ret = "false" /\ N = MaxN
  /\ Len(evals) = 1

\* C4: after a successful call the entry for residual i and coordinate k is
\* the forward quotient (f_i(x + delta_k e_k) - r_i) / delta_k under FORWARD
\* and the central quotient (f_i(x + delta_k e_k) - f_i(x - delta_k e_k)) /
\* (2 delta_k) under CENTRAL, the quotient being formed as the code's
\* arithmetic forms it: the difference times the reciprocal 1/delta_k, the
\* reciprocal halved under CENTRAL.  The entry is read at its row-major
\* place i * n + k, and the central value does not mention
\* residuals_at_eval_point.
C4_FiniteDifference ==
  (Returned /\ ret = "true") =>
    \A i \in 0..(NumRes - 1), k \in 1..N :
      jacobian[i * N + (k - 1)] =
        IF Central
        THEN FMul(FSub(ResidualAt(call.functor.fn, PlusPoint(k), i),
                       ResidualAt(call.functor.fn, MinusPoint(k), i)),
                  FDiv(FDiv(One, EntryDelta(k)), 2 * One))
        ELSE FMul(FSub(ResidualAt(call.functor.fn, PlusPoint(k), i),
                       ResidualsAtEvalPoint(call)[i + 1]),
                  FDiv(One, EntryDelta(k)))

\* a successful CENTRAL call with several residuals and coordinates
C4_Witness ==
  /\ Returned /\ ret = "true" /\ Central
  /\ N = MaxN /\ NumRes = MaxRes
  /\ \E o \in DOMAIN jacobian : jacobian[o] # 0

\* C5: evaluations are issued for coordinates 0..n-1 in order, +delta before
\* -delta; a successful call has made exactly n (FORWARD) or 2n (CENTRAL) of
\* them; if the k-th fails, exactly k have been made and none follows.
C5_EvaluationCount ==
  /\ \A k \in 1..Len(evals) :
       /\ evals[k].j = IF Central THEN (k - 1) \div 2 ELSE k - 1
       /\ evals[k].side = IF Central /\ k % 2 = 0 THEN "minus" ELSE "plus"
       /\ ~evals[k].ok => k = Len(evals) /\ Returned /\ ret = "false"
  /\ (Returned /\ ret = "true") =>
       Len(evals) = IF Central THEN 2 * N ELSE N
  /\ (Returned /\ ret = "false") =>
       /\ Len(evals) = call.functor.failAt
       /\ ~evals[Len(evals)].ok

\* a CENTRAL call whose last but one evaluation failed
C5_Witness ==
  /\ Returned /\ ret = "false" /\ Central /\ N = MaxN
  /\ Len(evals) = 2 * N - 1

\* C6: the perturbation of coordinate j is max(min_step, relative_step_size *
\* |x_j|) of the call-entry value x_j, at least min_step > 0; the +delta
\* point, the -delta point and the divisor of column j use that same value.
C6_StepSize ==
  /\ MinStepSize > 0
  /\ InColumn =>
       /\ delta = EntryDelta(j + 1)
       /\ delta >= MinStepSize
  /\ \A k \in 1..Len(evals) :
       evals[k].point[Target][evals[k].j + 1] =
         IF evals[k].side = "plus"
         THEN FAdd(EntryX[evals[k].j + 1], EntryDelta(evals[k].j + 1))
         ELSE FSub(EntryX[evals[k].j + 1], EntryDelta(evals[k].j + 1))
  /\ pc \in {"perturbMinus", "evalMinus", "subtractBackward", "subtractReference"} =>
       one_over_delta = FDiv(One, EntryDelta(j + 1))
  /\ pc \in {"restore", "scale"} =>
       one_over_delta = IF Central
                        THEN FDiv(FDiv(One, EntryDelta(j + 1)), 2 * One)
                        ELSE FDiv(One, EntryDelta(j + 1))

\* the backward evaluation of the last coordinate of an all-zero block has
\* been made
C6_Witness ==
  /\ pc = "subtractBackward" /\ N = MaxN /\ j = N - 1
  /\ \A k \in 1..N : EntryX[k] = 0
  /\ delta = MinStepSize

\* C7: with a compile-time block size of zero the call reaches the fatal
\* condition and never returns a value; it invokes no evaluation and writes
\* neither the parameter blocks nor the Jacobian buffer, whatever the
\* run-time arguments.
C7_ZeroSizeIsFatal ==
  call.kParameterBlockSize = 0 =>
    /\ pc \in {"entry", "fatal"}
    /\ ret = "none"
    /\ evals = <<>>
    /\ parameters = entry
    /\ writes = {}
    /\ \A o \in DOMAIN jacobian : jacobian[o] = Garbage

\* the fatal condition has been reached
C7_Witness ==
  /\ call.kParameterBlockSize = 0
  /\ pc = "fatal"

\* C8: the derivative of residual i with respect to coordinate k is stored at
\* offset i * n + k, which is offset i when n = 1; every store falls inside
\* [0, num_residuals * n), and column k is stored to only while coordinate k
\* is being processed.
C8_Layout ==
  \A w \in writes :
    /\ w.offset = IF N = 1 THEN w.row ELSE w.row * N + w.col
    /\ w.offset = w.row * N + w.col
    /\ 0 <= w.offset /\ w.offset < NumRes * N
    /\ w.during = w.col

\* every entry of a full-size Jacobian has been stored to
C8_Witness ==
  /\ Returned /\ ret = "true" /\ N = MaxN /\ NumRes = MaxRes
  /\ \A i \in 0..(NumRes - 1), k \in 0..(N - 1) :
       \E w \in writes : w.row = i /\ w.col = k

\* the coordinates of the target block in which a point differs from the
\* call-entry state
Differing(point) == { k \in 1..N : point[Target][k] # EntryX[k] }

\* C9 as stated: at every evaluation the parameter state differs from the
\* call-entry state in exactly one coordinate, the one being differenced,
\* which holds x_j + delta_j or x_j - delta_j.
C9_ExactlyOneCoordinateDiffers ==
  \A k \in 1..Len(evals) :
    /\ Differing(evals[k].point) = {evals[k].j + 1}
    /\ evals[k].point = IF evals[k].side = "plus"
                        THEN PlusPoint(evals[k].j + 1)
                        ELSE MinusPoint(evals[k].j + 1)

\* C9, amended: at every evaluation the parameter state differs from the
\* call-entry state in no coordinate other than the one being differenced,
\* which holds the rounded x_j + delta_j or x_j - delta_j; the coordinates
\* below are restored, those above untouched, the other blocks unchanged.
C9_OnlyCurrentCoordinateDiffers ==
  \A k \in 1..Len(evals) :
    /\ Differing(evals[k].point) \subseteq {evals[k].j + 1}
    /\ \A b \in DOMAIN entry : b # Target => evals[k].point[b] = entry[b]
    /\ evals[k].point = IF evals[k].side = "plus"
                        THEN PlusPoint(evals[k].j + 1)
                        ELSE MinusPoint(evals[k].j + 1)

\* the backward evaluation of the last coordinate, after an earlier
\* coordinate was perturbed and restored
C9_Witness ==
  /\ N = MaxN /\ Len(evals) = 2 * N /\ Central
  /\ evals[Len(evals)].side = "minus"
  /\ Differing(evals[1].point) = {1}
  /\ Differing(evals[Len(evals)].point) = {N}

\* C10: with a block size known only at run time and a supplied size of 0
\* the call does not reach the fatal condition; it returns true, having
\* invoked no evaluation and written neither the parameters nor the buffer.
C10_DynamicZeroReturnsTrue ==
  (call.kParameterBlockSize = DYNAMIC /\ call.parameter_block_size = 0) =>
    /\ pc \in {"entry", "loop", "returned"}
    /\ Returned => ret = "true"
    /\ ~Returned => ret = "none"
    /\ evals = <<>>
    /\ parameters = entry
    /\ writes = {}
    /\ \A o \in DOMAIN jacobian : jacobian[o] = Garbage

\* the run-time-sized call on an empty block has returned
C10_Witness ==
  /\ call.kParameterBlockSize = DYNAMIC /\ call.parameter_block_size = 0
  /\ Returned /\ ret = "true"

====
